---- MODULE Spec2Model ----
(***************************************************************************)
(* The step graph of src/src/base/graph_builder.py: GraphBuilder builds a  *)
(* LangGraph StateGraph from graph.json, one node per declared agent plus  *)
(* the node "validate_output", and execute() threads a BaseState through   *)
(* it.  The graph library runs the compiled graph in supersteps: a node    *)
(* runs, the state it returns is written back, and the target of its edge  *)
(* is the node of the next superstep.  The edge lists covered are those in *)
(* which a node has at most one outgoing edge, the shape of the            *)
(* repository's graphs; a node with several successors, which would start  *)
(* them in one superstep, is outside this model.                           *)
(***************************************************************************)
EXTENDS Naturals, Integers, Sequences, FiniteSets, TLC

\* ---------------------------------------------------------------- bounds
\* The library's limit on supersteps per invoke (25 by default), scaled down.
RecursionLimit == 3
\* Number of execute() calls followed in one behaviour.
MaxRuns == 2
\* The same when the model backend is deterministic.
MaxReplays == 3
\* Length of the datasets run_evaluation is followed on.
MaxItems == 2
\* Largest absolute value of the downtimes the metrics are followed on.
MaxDowntime == 5
\* Largest number of items in the triage outputs the metrics are followed on.
MaxOutputItems == 2
\* Number of tester operations followed in one behaviour.
MaxOps == 3

\* ------------------------------------------------------------- vocabulary
START == "START"
END == "END"
VALIDATE == "validate_output"
\* Python's None.
None == "None"

\* graph_config["agents"]: the declared step names.
DeclaredAgents == {"a", "b"}
\* Step names an edge can mention: the declared ones and an undeclared one.
StepNames == DeclaredAgents \cup {"c"}
\* The edges a graph.json edge list is drawn from.
EdgeUniverse ==
    ({START} \X StepNames) \cup (StepNames \X (StepNames \cup {END}))
\* graph_config["edges"], as the set the library keeps: every source has at
\* most one outgoing edge.
EdgeLists ==
    { E \in SUBSET EdgeUniverse :
        \A e \in E : \A f \in E : e[1] = f[1] => e = f }
\* workflow.agents: the names for which a step configuration was loaded.
LoadedAgentSets == { DeclaredAgents, {"a"} }
\* input texts
Inputs == {"t1", "t2"}
\* What the chain (prompt | llm | JsonOutputParser) can return: JSON null, an
\* empty mapping, a mapping the output schema accepts, one it rejects.
Results == {None, "{}", "good", "bad"}
\* str(e) of a failed model-backend call.
Messages == {"timeout"}

\* Python truthiness of an output value.
Truthy(v) == v \notin {None, "{}"}
\* schema_class.model_validate(v) succeeds.
SchemaAccepts(v) == v = "good"
\* validated.model_dump(): the validated data with the schema's defaults.
ModelDump(v) == <<v, "defaults">>
\* str(e) of the schema's ValidationError.
SchemaMessage(v) == <<"1 validation error for ", v>>
\* str(KeyError(name))
KeyErrorMessage(name) == <<"'", name, "'">>

\* f"Error in {agent_name}: {str(e)}"
FormatStepError(agent_name, msg) == <<"Error in ", agent_name, ": ">> \o msg
\* f"Validation error: {str(e)}"
FormatValidationError(msg) == <<"Validation error: ">> \o msg

\* ------------------------------------------------- dict with insertion order
\* A Python dict as the sequence of its items in insertion order.
Keys(d) == { d[i].key : i \in 1..Len(d) }
HasKey(d, k) == \E i \in 1..Len(d) : d[i].key = k
Get(d, k) == (CHOOSE i \in 1..Len(d) : d[i].key = k)
\* d[k] = v: a present key keeps its place, a new key goes last.
DictSet(d, k, v) ==
    IF HasKey(d, k)
    THEN [ i \in 1..Len(d) |-> IF d[i].key = k THEN [key |-> k, value |-> v] ELSE d[i] ]
    ELSE Append(d, [key |-> k, value |-> v])
Lookup(d, k) == d[Get(d, k)].value

\* ----------------------------------------------------------- build_graph
\* The nodes build_graph adds: every declared agent, then "validate_output".
Nodes == DeclaredAgents \cup {VALIDATE}
\* The edges build_graph hands to the library for an edge list E.
CompiledEdges(E) ==
    { <<START, e[2]>> : e \in { x \in E : x[1] = START } }
    \cup { <<e[1], VALIDATE>> : e \in { x \in E : x[1] # START /\ x[2] = END } }
    \cup { <<VALIDATE, END>> : e \in { x \in E : x[1] # START /\ x[2] = END } }
    \cup { e \in E : e[1] # START /\ e[2] # END }
\* graph.compile() raises ValueError: no edge from START, or an edge that
\* starts or ends at a name that is no node.  The library accepts cycles and
\* nodes that no edge reaches; build_graph adds no check of its own.
CompileFails(E) ==
    \/ ~ \E e \in CompiledEdges(E) : e[1] = START
    \/ \E e \in CompiledEdges(E) : e[1] \notin Nodes \cup {START}
    \/ \E e \in CompiledEdges(E) : e[2] \notin Nodes \cup {END}
\* The nodes that node n triggers for the next superstep.
Successors(E, n) ==
    { e[2] : e \in { x \in CompiledEdges(E) : x[1] = n /\ x[2] # END } }

VARIABLES
    edges,      \* graph_config["edges"]
    agents,     \* workflow.agents (its keys)
    graph,      \* GraphBuilder.graph: None or the compiled graph
    pc,         \* "idle", "running", "returned" or "raised"
    exc,        \* the exception a raised call ended with
    state,      \* the BaseState of the current execution
    current,    \* the node of the current superstep
    step,       \* the number of the current superstep
    runs,       \* execute() calls so far
    trace,      \* the nodes run in this execution, in order
    calls,      \* chain.invoke calls per agent in this execution
    last,       \* what the node that ran last saw and did
    events,     \* what each node run in this execution saw and did, in order
    returned,   \* the BaseStates execute() has returned so far, in order
    replay      \* the model backend: whether it is deterministic and, if
                \* so, the reply it has given for each (agent, input) so far

\* run_evaluation and the loop of the run command around it
VARIABLES
    entry,      \* "run_evaluation": one call on the whole dataset;
                \* "run": the run command, one run_evaluation([item]) per item
    dataset,    \* the dataset items, in order
    position,   \* how many items the loop has taken from the dataset
    epc,        \* "idle", "loop" (between items), "item" (inside the try of
                \* an item), "done", "raised" or "exited"
    eexc,       \* the exception that ended the evaluation
    pending,    \* the EvaluationResult of the item in progress
    executed,   \* how execute() ended for the item handled last
    results     \* the EvaluationResults appended so far

evalVars == <<entry, dataset, position, epc, eexc, pending, executed, results>>

\* EvaluationFramework and its metrics
VARIABLES
    metrics,     \* EvaluationFramework.metrics: name -> metric, in insertion order
    m_actual,    \* the actual output the metrics are evaluated on
    m_expected,  \* the expected output
    failing,     \* the custom metrics whose evaluate raises on these outputs
    scores,      \* the score map evaluate returned
    mpc,         \* "idle", "setup" (metrics are being added), "evaluated",
                 \* "aggregated"; "inputs" and "scored" for a single metric
    m_input,     \* the input text the metrics are evaluated on
    scored,      \* the metric evaluated on its own and what its call did
    aggregate    \* what get_aggregate_score returned for the score map

metricVars == <<metrics, m_actual, m_expected, failing, scores, mpc, m_input, scored,
                aggregate>>

\* AgentTester on one of its workflows
VARIABLES
    t_agents,   \* workflow.agents: name -> agent configuration, in load order
    t_ops,      \* the tester operations called so far
    t_op,       \* the operation called last: "none", "update", "get" or "test"
    t_ok,       \* what update_agent_prompt returned last
    t_updated,  \* the prompt of the last update_agent_prompt that returned True
    t_got,      \* what get_agent_prompt returned last
    t_used      \* for each step of the last test_agent, what its node did to
                \* get the system prompt of its chain

testerVars == <<t_agents, t_ops, t_op, t_ok, t_updated, t_got, t_used>>

graphVars == <<edges, agents, graph, pc, exc, state, current, step, runs, trace,
               calls, last, events, returned, replay>>

vars == <<graphVars, evalVars, metricVars, testerVars>>

\* Before the first execute() there is no BaseState yet.
NoState ==
    [ input_data |-> None, output_data |-> None, errors |-> <<>>,
      metadata |-> {}, step_results |-> <<>> ]
\* execute() with the errors list and the step_results dict created once and
\* shared by every call, instead of the literals of lines 119 and 121.
InitialStateShared(input_text) ==
    [ input_data |-> input_text, output_data |-> None, errors |-> state.errors,
      metadata |-> {}, step_results |-> state.step_results ]
\* execute() with only the step_results dict shared by every call.
InitialStateKeepsStepResults(input_text) ==
    [ input_data |-> input_text, output_data |-> None, errors |-> <<>>,
      metadata |-> {}, step_results |-> state.step_results ]
\* BaseState(input_data=input_text, output_data=None, errors=[], metadata={}, step_results={})
InitialState(input_text) ==
    [ input_data |-> input_text, output_data |-> None, errors |-> <<>>,
      metadata |-> {}, step_results |-> <<>> ]

NoEvent ==
    [ node |-> None, kind |-> "none", seen |-> None, given |-> None, result |-> None,
      msg |-> <<>> ]
NoCalls == [ n \in DeclaredAgents |-> 0 ]

\* No reply given yet for any (agent, input).
NoReplies == [ k \in DeclaredAgents \X Inputs |-> <<"unset">> ]
\* llm of agent_node (ChatOpenAI): the reply o to agent_name's prompt on
\* input_text is possible.  A live backend can give any reply; a deterministic
\* one repeats the reply it gave to the same prompt and input before.
BackendAllows(agent_name, input_text, o) ==
    \/ ~ replay.deterministic
    \/ replay.replies[<<agent_name, input_text>>] \in {<<"unset">>, o}
\* The replies given so far, after reply o.
Replied(agent_name, input_text, o) ==
    IF replay.deterministic
    THEN [ replay EXCEPT !.replies[<<agent_name, input_text>>] = o ]
    ELSE replay

InitGraph ==
    /\ edges \in EdgeLists
    /\ agents \in LoadedAgentSets
    /\ graph = None
    /\ pc = "idle"
    /\ exc = None
    /\ state = NoState
    /\ current = None
    /\ step = 0
    /\ runs = 0
    /\ trace = <<>>
    /\ calls = NoCalls
    /\ last = NoEvent
    /\ events = <<>>
    /\ returned = <<>>

\* No evaluation is under way.
NoEvaluation ==
    /\ entry = None /\ dataset = <<>> /\ position = 0 /\ epc = "idle"
    /\ eexc = None /\ pending = <<>> /\ results = <<>>
    /\ executed = [ kind |-> "none", state |-> NoState, exc |-> None ]

\* No framework is being set up or used.
NoOutput ==
    [ shape |-> "none", equipment_downtime |-> <<>>,
      work_requests |-> <<>>, work_orders |-> <<>>, tasks |-> <<>> ]
\* No score has been computed.
NoScore == [ metric |-> None, raised |-> FALSE, score |-> [ num |-> 0, den |-> 1 ] ]
NoMetrics ==
    /\ metrics = <<>> /\ failing = {} /\ scores = <<>> /\ mpc = "idle"
    /\ m_actual = NoOutput /\ m_expected = NoOutput
    /\ m_input = <<>> /\ scored = NoScore /\ aggregate = [ num |-> 0, den |-> 1 ]

\* No tester is in use.
NoTester ==
    /\ t_agents = <<>> /\ t_ops = 0 /\ t_op = "none" /\ t_ok = FALSE
    /\ t_updated = <<>> /\ t_got = "" /\ t_used = <<>>

\* A GraphBuilder whose agents call a live model backend.
Init ==
    /\ InitGraph /\ replay = [deterministic |-> FALSE, replies |-> NoReplies]
    /\ NoEvaluation /\ NoMetrics /\ NoTester

\* --------------------------------------------------------------- the nodes
\* agent_node's try branch without line 73: the result is not recorded.
AgentNodeSuccessUnrecorded(st, agent_name, result) ==
    [ st EXCEPT !.output_data = result ]
\* agent_node, try branch: the chain returned result.
AgentNodeSuccess(st, agent_name, result) ==
    [ st EXCEPT !.output_data = result,
                !.step_results = DictSet(@, agent_name, [tag |-> "result", data |-> result]) ]
\* agent_node's except branch without line 78: the output is left as it was.
AgentNodeFailureKeepsOutput(st, agent_name, msg) ==
    [ st EXCEPT !.errors = Append(@, FormatStepError(agent_name, msg)) ]
\* agent_node's except branch assigning a new errors list instead of appending.
AgentNodeFailureReplacesErrors(st, agent_name, msg) ==
    [ st EXCEPT !.errors = << FormatStepError(agent_name, msg) >>,
                !.output_data = None ]
\* agent_node, except branch: the lookup of the agent or the chain raised.
AgentNodeFailure(st, agent_name, msg) ==
    [ st EXCEPT !.errors = Append(@, FormatStepError(agent_name, msg)),
                !.output_data = None ]
\* _validate_output_node without the test of line 88: a null output goes to
\* model_validate, which raises, and the except branch records it.
ValidateOutputNodeUnguarded(st) ==
    IF SchemaAccepts(st.output_data)
    THEN [ st EXCEPT !.step_results =
               DictSet(@, VALIDATE, [tag |-> "validation", valid |-> TRUE,
                                     validated_data |-> ModelDump(st.output_data)]) ]
    ELSE [ st EXCEPT !.errors = Append(@, FormatValidationError(SchemaMessage(st.output_data))),
                     !.step_results =
               DictSet(@, VALIDATE, [tag |-> "validation", valid |-> FALSE,
                                     error |-> FormatValidationError(SchemaMessage(st.output_data))]) ]
\* _validate_output_node
ValidateOutputNode(st) ==
    IF Truthy(st.output_data)
    THEN IF SchemaAccepts(st.output_data)
         THEN [ st EXCEPT !.step_results =
                    DictSet(@, VALIDATE, [tag |-> "validation", valid |-> TRUE,
                                          validated_data |-> ModelDump(st.output_data)]) ]
         ELSE [ st EXCEPT !.errors = Append(@, FormatValidationError(SchemaMessage(st.output_data))),
                          !.step_results =
                    DictSet(@, VALIDATE, [tag |-> "validation", valid |-> FALSE,
                                          error |-> FormatValidationError(SchemaMessage(st.output_data))]) ]
    ELSE [ st EXCEPT !.step_results =
               DictSet(@, VALIDATE, [tag |-> "validation", valid |-> FALSE,
                                     error |-> <<"No output data to validate">>]) ]
\* The branch _validate_output_node takes on st.
ValidationKind(st) ==
    IF ~ Truthy(st.output_data) THEN "nodata"
    ELSE IF SchemaAccepts(st.output_data) THEN "valid" ELSE "invalid"

\* graph.invoke after node n returned: no triggered node ends the run with the
\* state, a further superstep past the limit is a GraphRecursionError,
\* otherwise the triggered node is next.
EndSuperstep(n) ==
    IF Successors(edges, n) = {}
    THEN /\ pc' = "returned" /\ exc' = None /\ current' = None
         /\ step' = step
    ELSE IF step >= RecursionLimit
    THEN /\ pc' = "raised" /\ exc' = "GraphRecursionError" /\ current' = None
         /\ step' = step
    ELSE /\ pc' = "running" /\ exc' = None
         /\ current' \in Successors(edges, n)
         /\ step' = step + 1

\* Node n runs and returns `new`; ev is what it saw and did.
NodeReturns(n, new, ev) ==
    /\ state' = new
    /\ trace' = Append(trace, n)
    /\ last' = ev
    /\ events' = Append(events, ev)
    /\ EndSuperstep(n)
    /\ returned' = IF Successors(edges, n) = {} THEN Append(returned, new) ELSE returned
    /\ UNCHANGED <<evalVars, metricVars, testerVars>>
    /\ UNCHANGED <<edges, agents, graph, runs>>

\* chain.invoke given the output of the step before, when there is one.
ChainInputFromOutput(st) ==
    IF st.output_data # None THEN st.output_data ELSE st.input_data
\* chain.invoke({"input": state["input_data"]}): what the chain is given.
ChainInput(st) == st.input_data

\* agent_node: workflow.agents[agent_name] and the chain's invoke succeed.
AgentSucceeds(n) ==
    /\ pc = "running" /\ current = n
    /\ n \in agents
    /\ \E result \in Results :
          /\ BackendAllows(n, state.input_data, <<"ok", result>>)
          /\ replay' = Replied(n, state.input_data, <<"ok", result>>)
          /\ calls' = [calls EXCEPT ![n] = @ + 1]
          /\ NodeReturns(n, AgentNodeSuccess(state, n, result),
                         [ node |-> n, kind |-> "ok", seen |-> state.output_data,
                           given |-> ChainInput(state),
                           result |-> result, msg |-> <<>> ])

\* agent_node: the chain's invoke raises.
AgentFails(n) ==
    /\ pc = "running" /\ current = n
    /\ n \in agents
    /\ \E m \in Messages :
          /\ BackendAllows(n, state.input_data, <<"fail", m>>)
          /\ replay' = Replied(n, state.input_data, <<"fail", m>>)
          /\ calls' = [calls EXCEPT ![n] = @ + 1]
          /\ NodeReturns(n, AgentNodeFailure(state, n, <<m>>),
                         [ node |-> n, kind |-> "fail", seen |-> state.output_data,
                           given |-> ChainInput(state), result |-> None, msg |-> <<m>> ])

\* agent_node: workflow.agents has no entry for agent_name (KeyError).
AgentMissing(n) ==
    /\ pc = "running" /\ current = n
    /\ n \notin agents
    /\ calls' = calls /\ replay' = replay
    /\ NodeReturns(n, AgentNodeFailure(state, n, KeyErrorMessage(n)),
                   [ node |-> n, kind |-> "fail", seen |-> state.output_data,
                     given |-> None, result |-> None, msg |-> KeyErrorMessage(n) ])

\* _validate_output_node as a node of the graph.
Validate ==
    /\ pc = "running" /\ current = VALIDATE
    /\ calls' = calls /\ replay' = replay
    /\ NodeReturns(VALIDATE, ValidateOutputNode(state),
                   [ node |-> VALIDATE, kind |-> ValidationKind(state),
                     seen |-> state.output_data, given |-> None, result |-> None,
                     msg |-> <<>> ])

\* build_graph called on its own (display.generate_workflow_graph).
BuildGraph ==
    /\ pc = "idle" /\ graph = None
    /\ IF CompileFails(edges)
       THEN /\ pc' = "raised" /\ exc' = "ValueError" /\ graph' = None
       ELSE /\ pc' = "idle" /\ exc' = None /\ graph' = "compiled"
    /\ UNCHANGED <<edges, agents, state, current, step, runs, trace, calls, last,
                   events, returned, replay, evalVars, metricVars, testerVars>>

\* execute(input_text): build the graph if there is none, then invoke it on
\* a fresh BaseState.
Execute(input_text) ==
    /\ pc # "running"
    /\ runs < (IF replay.deterministic THEN MaxReplays ELSE MaxRuns)
    /\ runs' = runs + 1
    /\ IF graph = None /\ CompileFails(edges)
       THEN /\ pc' = "raised" /\ exc' = "ValueError" /\ graph' = None
            /\ UNCHANGED <<state, current, step, trace, calls, last, events>>
       ELSE /\ graph' = "compiled"
            /\ pc' = "running" /\ exc' = None
            /\ state' = InitialState(input_text)
            /\ current' \in Successors(edges, START)
            /\ step' = 1
            /\ trace' = <<>>
            /\ calls' = NoCalls
            /\ last' = NoEvent
            /\ events' = <<>>
    /\ UNCHANGED <<edges, agents, returned, replay>>

Next ==
    \/ BuildGraph
    \/ \E input_text \in Inputs : Execute(input_text) /\ UNCHANGED <<evalVars, metricVars, testerVars>>
    \/ \E n \in DeclaredAgents : AgentSucceeds(n)
    \/ \E n \in DeclaredAgents : AgentFails(n)
    \/ \E n \in DeclaredAgents : AgentMissing(n)
    \/ Validate

Spec == Init /\ [][Next]_vars

\* The same GraphBuilder with a deterministic model backend in place of the
\* live one.
InitDeterministic ==
    /\ InitGraph /\ replay = [deterministic |-> TRUE, replies |-> NoReplies]
    /\ NoEvaluation /\ NoMetrics /\ NoTester
SpecDeterministic == InitDeterministic /\ [][Next]_vars

\* ------------------------------------------------- graph.invoke as a whole
\* How the model-backend call of an agent can end.
AgentOutcomes == { <<"ok", r>> : r \in Results } \cup { <<"fail", m>> : m \in Messages }
\* The state node n returns on st when the agents' calls end as o says.
RunNode(A, st, n, o) ==
    IF n = VALIDATE THEN ValidateOutputNode(st)
    ELSE IF n \notin A THEN AgentNodeFailure(st, n, KeyErrorMessage(n))
    ELSE IF o[n][1] = "ok" THEN AgentNodeSuccess(st, n, o[n][2])
    ELSE AgentNodeFailure(st, n, <<o[n][2]>>)
\* graph.invoke from node n in superstep k on state st, run to its end.
RECURSIVE Invoke(_, _, _, _, _, _)
Invoke(E, A, st, n, k, o) ==
    IF Successors(E, n) = {}
    THEN [ kind |-> "returned", state |-> RunNode(A, st, n, o), exc |-> None ]
    ELSE IF k >= RecursionLimit
    THEN [ kind |-> "raised", state |-> NoState, exc |-> "GraphRecursionError" ]
    ELSE Invoke(E, A, RunNode(A, st, n, o),
                CHOOSE m \in Successors(E, n) : TRUE, k + 1, o)
\* execute(input_text) run to its end: the returned BaseState or the exception.
ExecuteToEnd(E, A, input_text, o) ==
    IF CompileFails(E)
    THEN [ kind |-> "raised", state |-> NoState, exc |-> "ValueError" ]
    ELSE Invoke(E, A, InitialState(input_text),
                CHOOSE m \in Successors(E, START) : TRUE, 1, o)
\* execute() has not been called.
NoExecution == [ kind |-> "none", state |-> NoState, exc |-> None ]

\* ------------------------------------------------------------ run_evaluation
\* A key a dataset item does not have.
Absent == "absent"
\* The dataset items followed: with an expected output, without one, and
\* without the "input" key.
DatasetItems ==
    { [ input |-> "t1", expected_output |-> "good" ],
      [ input |-> "t2", expected_output |-> Absent ],
      [ input |-> Absent, expected_output |-> "good" ] }
Datasets == UNION { [ 1..n -> DatasetItems ] : n \in 0..MaxItems }
\* The edge lists of the workflows evaluated: one step, two steps, two steps
\* that never reach END, a step that leads back to itself, no START edge, an
\* edge to a step that is not declared.
EvaluatedEdgeLists ==
    { { <<START, "a">>, <<"a", END>> },
      { <<START, "a">>, <<"a", "b">>, <<"b", END>> },
      { <<START, "a">>, <<"a", "b">> },
      { <<START, "a">>, <<"a", "a">> },
      { <<"a", END>> },
      { <<START, "c">> } }
\* item.get(key)
ItemGet(item, key) == IF item[key] = Absent THEN None ELSE item[key]
\* str(e) of an exception that execute() raised
ExceptionMessage(e) == <<e, ": ", "message">>
\* The structure process_input returns in place of an empty output.
DefaultOutput == "default"
\* process_input returning the graph's output as it is.
ProcessInputWithoutDefault(run) == run.state.output_data
\* process_input after execute() returned
ProcessInput(run) ==
    IF Truthy(run.state.output_data) THEN run.state.output_data ELSE DefaultOutput
\* evaluate_output: the score map of the workflow's metric set.  Of its
\* metrics, schema validity is the one that the outputs followed here
\* determine; the default structure satisfies the schema of its workflow.
EvaluateOutput(actual_output, expected_output) ==
    << [ key |-> "schema_validity",
         value |-> IF actual_output = DefaultOutput \/ SchemaAccepts(actual_output)
                   THEN 1 ELSE 0 ] >>
\* An EvaluationResult created without the item's input text.
NewResultWithoutInput(input_text) ==
    [ input_text |-> None, expected_output |-> None, actual_output |-> None,
      metrics |-> <<>>, errors |-> <<>>, success |-> FALSE ]
\* EvaluationResult(input_text=...)
NewResult(input_text) ==
    [ input_text |-> input_text, expected_output |-> None, actual_output |-> None,
      metrics |-> <<>>, errors |-> <<>>, success |-> FALSE ]
\* The try statement of run_evaluation whose except branch also stores what
\* the item had produced before the exception.
EvaluateItemKeepsPartial(result, item, run) ==
    IF run.kind = "raised"
    THEN [ result EXCEPT !.errors = Append(@, ExceptionMessage(run.exc)),
                         !.metrics = EvaluateOutput(DefaultOutput, None),
                         !.success = FALSE ]
    ELSE [ result EXCEPT !.actual_output = ProcessInput(run),
                         !.expected_output = ItemGet(item, "expected_output"),
                         !.metrics = EvaluateOutput(ProcessInput(run),
                                                    ItemGet(item, "expected_output")),
                         !.success = TRUE ]
\* The try statement of run_evaluation on the item's fresh result, execute()
\* having ended as run.
EvaluateItem(result, item, run) ==
    IF run.kind = "raised"
    THEN [ result EXCEPT !.errors = Append(@, ExceptionMessage(run.exc)),
                         !.success = FALSE ]
    ELSE [ result EXCEPT !.actual_output = ProcessInput(run),
                         !.expected_output = ItemGet(item, "expected_output"),
                         !.metrics = EvaluateOutput(ProcessInput(run),
                                                    ItemGet(item, "expected_output")),
                         !.success = TRUE ]

\* An exception that the loop swallows and goes on.
PropagatedNowhere == "loop"
\* How an exception that leaves run_evaluation ends the evaluation: it
\* propagates to the caller, and the run command turns it into an exit.
Propagated == IF entry = "run" THEN "exited" ELSE "raised"

\* The loop takes the next item and creates its EvaluationResult; an item
\* without "input" is a KeyError outside the try statement.
StartItem ==
    /\ epc = "loop" /\ position < Len(dataset)
    /\ position' = position + 1
    /\ IF dataset[position + 1].input = Absent
       THEN /\ epc' = Propagated /\ eexc' = "KeyError" /\ pending' = <<>>
       ELSE /\ epc' = "item" /\ eexc' = None
            /\ pending' = << NewResult(dataset[position + 1].input) >>
    /\ UNCHANGED <<entry, dataset, executed, results>>
    /\ UNCHANGED <<edges, agents, graph, pc, exc, state, current, step, runs, trace,
                   calls, last, events, returned, replay, metricVars, testerVars>>

\* The try statement for the item in progress, then results.append(result).
FinishItem ==
    /\ epc = "item"
    /\ \E o \in [ DeclaredAgents -> AgentOutcomes ] :
          /\ executed' = ExecuteToEnd(edges, agents, dataset[position].input, o)
          /\ results' = Append(results, EvaluateItem(pending[1], dataset[position], executed'))
    /\ graph' = IF CompileFails(edges) THEN None ELSE "compiled"
    /\ epc' = "loop" /\ pending' = <<>>
    /\ UNCHANGED <<entry, dataset, position, eexc>>
    /\ UNCHANGED <<edges, agents, pc, exc, state, current, step, runs, trace,
                   calls, last, events, returned, replay, metricVars, testerVars>>

\* The loop has taken every item: the results are returned.
Return ==
    /\ epc = "loop" /\ position = Len(dataset)
    /\ epc' = "done"
    /\ UNCHANGED <<entry, dataset, position, eexc, pending, executed, results>>
    /\ UNCHANGED <<edges, agents, graph, pc, exc, state, current, step, runs, trace,
                   calls, last, events, returned, replay, metricVars, testerVars>>

\* KeyboardInterrupt while the loop runs: no except clause of run_evaluation
\* catches it, the run command's does and exits.
Interrupt ==
    /\ epc \in {"loop", "item"}
    /\ epc' = Propagated /\ eexc' = "KeyboardInterrupt" /\ pending' = <<>>
    /\ UNCHANGED <<entry, dataset, position, executed, results>>
    /\ UNCHANGED <<edges, agents, graph, pc, exc, state, current, step, runs, trace,
                   calls, last, events, returned, replay, metricVars, testerVars>>

InitEvaluation ==
    /\ InitGraph /\ edges \in EvaluatedEdgeLists
    /\ replay = [deterministic |-> FALSE, replies |-> NoReplies]
    /\ entry \in {"run_evaluation", "run"}
    /\ dataset \in Datasets
    /\ position = 0 /\ epc = "loop" /\ eexc = None
    /\ pending = <<>> /\ executed = NoExecution /\ results = <<>>
    /\ NoMetrics /\ NoTester

NextEvaluation ==
    \/ StartItem
    \/ FinishItem
    \/ Return
    \/ Interrupt

SpecEvaluation == InitEvaluation /\ [][NextEvaluation]_vars

\* ------------------------------------------------------------------ metrics
\* A score: the rational num/den with den > 0, in lowest terms.
RECURSIVE GCD(_, _)
GCD(a, b) == IF b = 0 THEN a ELSE GCD(b, a % b)
Abs(n) == IF n < 0 THEN 0 - n ELSE n
Frac(n, d) ==
    LET g == GCD(Abs(n), Abs(d))
        sn == IF d < 0 THEN 0 - n ELSE n
    IN [ num |-> sn \div g, den |-> Abs(d) \div g ]
Zero == Frac(0, 1)
One == Frac(1, 1)
FracSub(x, y) == Frac(x.num * y.den - y.num * x.den, x.den * y.den)
FracAdd(x, y) == Frac(x.num * y.den + y.num * x.den, x.den * y.den)
\* x / n for a positive integer n
FracDiv(x, n) == Frac(x.num, x.den * n)
FracLeq(x, y) == x.num * y.den <= y.num * x.den
FracMax(x, y) == IF FracLeq(x, y) THEN y ELSE x

\* The outputs the metrics are followed on: None, an empty dict, a JSON list,
\* and a dict whose "equipment_downtime" is absent or None (<<>>) or the
\* integer d (<<d>>).  These have no items in "work_requests", "work_orders"
\* and "tasks".
Downtimes == { <<>> } \cup { <<d>> : d \in (0 - MaxDowntime)..MaxDowntime }
OutputValues ==
    { [ shape |-> s, equipment_downtime |-> <<>>,
        work_requests |-> <<>>, work_orders |-> <<>>, tasks |-> <<>> ] :
          s \in {"none", "empty", "list"} }
    \cup { [ shape |-> "dict", equipment_downtime |-> x,
             work_requests |-> <<>>, work_orders |-> <<>>, tasks |-> <<>> ] :
               x \in Downtimes }
\* Python truthiness of an output
NonEmpty(v) == v.shape \in {"list", "dict"}
\* What a call of a metric's evaluate does: a score, or an exception.
Returns(score) == [ raised |-> FALSE, score |-> score ]
Raises == [ raised |-> TRUE, score |-> Zero ]

\* DowntimeExtractionMetric.evaluate taking the error relative to the actual
\* downtime.
DowntimeEvaluateRelativeToActual(actual_output, expected_output) ==
    IF ~ NonEmpty(expected_output) THEN Returns(Zero)
    ELSE IF expected_output.shape # "dict" \/ actual_output.shape \notin {"dict", "empty"}
    THEN Raises
    ELSE LET expected_downtime == expected_output.equipment_downtime
             actual_downtime == actual_output.equipment_downtime
         IN IF expected_downtime = actual_downtime THEN Returns(One)
            ELSE IF expected_downtime # <<>> /\ actual_downtime # <<>>
            THEN IF expected_downtime[1] = 0 \/ actual_downtime[1] = 0
                 THEN Returns(Zero)
                 ELSE Returns(FracMax(Zero,
                         FracSub(One, Frac(Abs(expected_downtime[1] - actual_downtime[1]),
                                           actual_downtime[1]))))
            ELSE Returns(Zero)
\* DowntimeExtractionMetric.evaluate testing the expected downtime, not the
\* expected output, before anything else.
DowntimeEvaluateNeedsExpectedValue(actual_output, expected_output) ==
    IF ~ NonEmpty(expected_output) THEN Returns(Zero)
    ELSE IF expected_output.shape # "dict" \/ actual_output.shape \notin {"dict", "empty"}
    THEN Raises
    ELSE LET expected_downtime == expected_output.equipment_downtime
             actual_downtime == actual_output.equipment_downtime
         IN IF expected_downtime = <<>> THEN Returns(Zero)
            ELSE IF expected_downtime = actual_downtime THEN Returns(One)
            ELSE IF actual_downtime # <<>>
            THEN IF expected_downtime[1] = 0
                 THEN Returns(IF actual_downtime[1] = 0 THEN One ELSE Zero)
                 ELSE Returns(FracMax(Zero,
                         FracSub(One, Frac(Abs(expected_downtime[1] - actual_downtime[1]),
                                           expected_downtime[1]))))
            ELSE Returns(Zero)
\* DowntimeExtractionMetric.evaluate; .get on an output that is no dict is an
\* AttributeError.
DowntimeEvaluate(actual_output, expected_output) ==
    IF ~ NonEmpty(expected_output) THEN Returns(Zero)
    ELSE IF expected_output.shape # "dict" \/ actual_output.shape \notin {"dict", "empty"}
    THEN Raises
    ELSE LET expected_downtime == expected_output.equipment_downtime
             actual_downtime == actual_output.equipment_downtime
         IN IF expected_downtime = actual_downtime THEN Returns(One)
            ELSE IF expected_downtime # <<>> /\ actual_downtime # <<>>
            THEN IF expected_downtime[1] = 0
                 THEN Returns(IF actual_downtime[1] = 0 THEN One ELSE Zero)
                 ELSE Returns(FracMax(Zero,
                         FracSub(One, Frac(Abs(expected_downtime[1] - actual_downtime[1]),
                                           expected_downtime[1]))))
            ELSE Returns(Zero)

\* The metrics a framework is given: the downtime metric and two metrics of
\* other BaseMetric subclasses, which return a fixed score when they return.
DOWNTIME == "downtime_extraction_accuracy"
CustomMetrics == {"custom_1", "custom_2"}
MetricNames == {DOWNTIME} \cup CustomMetrics
CustomScore(name) == IF name = "custom_1" THEN Frac(1, 2) ELSE One

\* metric.evaluate(input_text, actual_output, expected_output)
MetricEvaluate(name, actual_output, expected_output) ==
    IF name = DOWNTIME THEN DowntimeEvaluate(actual_output, expected_output)
    ELSE IF name \in failing THEN Raises
    ELSE Returns(CustomScore(name))

\* EvaluationFramework.evaluate without its try statement: the first metric
\* that raises ends the loop.
RECURSIVE FrameworkEvaluateUntilRaise(_, _, _, _, _)
FrameworkEvaluateUntilRaise(ms, i, acc, actual_output, expected_output) ==
    IF i > Len(ms) THEN acc
    ELSE LET r == MetricEvaluate(ms[i].value, actual_output, expected_output)
         IN IF r.raised THEN acc
            ELSE FrameworkEvaluateUntilRaise(ms, i + 1, DictSet(acc, ms[i].key, r.score),
                                             actual_output, expected_output)
FrameworkEvaluateUnguarded(ms, actual_output, expected_output) ==
    FrameworkEvaluateUntilRaise(ms, 1, <<>>, actual_output, expected_output)
\* The loop of EvaluationFramework.evaluate from the i-th registered metric
\* on, acc being the scores so far.
RECURSIVE FrameworkEvaluateFrom(_, _, _, _, _)
FrameworkEvaluateFrom(ms, i, acc, actual_output, expected_output) ==
    IF i > Len(ms) THEN acc
    ELSE LET r == MetricEvaluate(ms[i].value, actual_output, expected_output)
         IN FrameworkEvaluateFrom(ms, i + 1,
                DictSet(acc, ms[i].key, IF r.raised THEN Zero ELSE r.score),
                actual_output, expected_output)
\* EvaluationFramework.evaluate
FrameworkEvaluate(ms, actual_output, expected_output) ==
    FrameworkEvaluateFrom(ms, 1, <<>>, actual_output, expected_output)

\* sum(scores.values()) over the first n entries
RECURSIVE SumValues(_, _)
SumValues(sc, n) == IF n = 0 THEN Zero ELSE FracAdd(SumValues(sc, n - 1), sc[n].value)
\* EvaluationFramework.get_aggregate_score counting every metric name, a name
\* without a score as 0.
GetAggregateScoreOverAllNames(sc) ==
    IF Len(sc) = 0 THEN Zero
    ELSE FracDiv(SumValues(sc, Len(sc)), Cardinality(MetricNames))
\* EvaluationFramework.get_aggregate_score
GetAggregateScore(sc) ==
    IF Len(sc) = 0 THEN Zero
    ELSE FracDiv(SumValues(sc, Len(sc)), Len(sc))

\* framework.add_metric(metric)
AddMetric(name) ==
    /\ mpc = "setup"
    /\ metrics' = DictSet(metrics, name, name)
    /\ UNCHANGED <<m_actual, m_expected, failing, scores, mpc, m_input, scored, aggregate>>
    /\ UNCHANGED <<graphVars, evalVars, testerVars>>

\* framework.evaluate(input_text, actual_output, expected_output)
EvaluateMetrics ==
    /\ mpc = "setup"
    /\ scores' = FrameworkEvaluate(metrics, m_actual, m_expected)
    /\ mpc' = "evaluated"
    /\ UNCHANGED <<metrics, m_actual, m_expected, failing, m_input, scored, aggregate>>
    /\ UNCHANGED <<graphVars, evalVars, testerVars>>

\* framework.get_aggregate_score(scores)
AggregateScores ==
    /\ mpc = "evaluated"
    /\ aggregate' = GetAggregateScore(scores)
    /\ mpc' = "aggregated"
    /\ UNCHANGED <<metrics, m_actual, m_expected, failing, scores, m_input, scored>>
    /\ UNCHANGED <<graphVars, evalVars, testerVars>>

InitMetrics ==
    /\ InitGraph /\ edges = { <<START, "a">>, <<"a", END>> } /\ agents = DeclaredAgents
    /\ replay = [deterministic |-> FALSE, replies |-> NoReplies]
    /\ NoEvaluation /\ NoTester
    /\ metrics = <<>> /\ scores = <<>> /\ mpc = "setup"
    /\ failing \in SUBSET CustomMetrics
    /\ m_actual \in OutputValues
    /\ m_expected \in OutputValues
    /\ m_input = <<>> /\ scored = NoScore /\ aggregate = Zero

NextMetrics ==
    \/ \E name \in MetricNames : AddMetric(name)
    \/ EvaluateMetrics
    \/ AggregateScores

SpecMetrics == InitMetrics /\ [][NextMetrics]_vars

\* ------------------------------------------------- the metrics one by one

\* The categories of a triage output.
Categories == <<"work_requests", "work_orders", "tasks">>
\* The items followed: a field that is absent or empty is "".  A complete
\* item of asset tunnel-001, an item with an empty description and no asset,
\* and an item with nothing but the asset dryer-012.
ItemKinds ==
    { [ title |-> "T", description |-> "D", status |-> "pending", asset_id |-> "tunnel-001" ],
      [ title |-> "T", description |-> "", status |-> "pending", asset_id |-> "" ],
      [ title |-> "", description |-> "", status |-> "", asset_id |-> "dryer-012" ] }
ItemLists == UNION { [ 1..n -> ItemKinds ] : n \in 0..MaxOutputItems }
\* The triage outputs followed: dicts with at most MaxOutputItems items.
TriageOutputs ==
    { o \in [ shape : {"dict"}, equipment_downtime : { <<>> },
              work_requests : ItemLists, work_orders : ItemLists, tasks : ItemLists ] :
        Len(o.work_requests) + Len(o.work_orders) + Len(o.tasks) <= MaxOutputItems }
\* The expected triage outputs followed: each category empty or one item.
ExpectedTriageOutputs ==
    [ shape : {"dict"}, equipment_downtime : { <<>> },
      work_requests : { <<>>, << CHOOSE i \in ItemKinds : i.description = "D" >> },
      work_orders : { <<>>, << CHOOSE i \in ItemKinds : i.description = "D" >> },
      tasks : { <<>>, << CHOOSE i \in ItemKinds : i.description = "D" >> } ]

\* The input texts followed, as words.
InputTexts ==
    { << "Fix", "Tunnel", "1", "today" >>,
      << "dryer", "12", "and", "TUNNEL", "ONE", "leak" >>,
      << "dryer", "12", "is", "hot" >>,
      << "nothing", "to", "report" >> }
\* str.lower() on a word
LowerWord(w) ==
    CASE w = "Fix" -> "fix"
      [] w = "Tunnel" -> "tunnel"
      [] w = "TUNNEL" -> "tunnel"
      [] w = "ONE" -> "one"
      [] OTHER -> w
\* input_text.lower()
Lower(text) == [ i \in 1..Len(text) |-> LowerWord(text[i]) ]
\* variation in input_lower
Occurs(phrase, text) ==
    \E i \in 1..Len(text) :
        /\ i + Len(phrase) - 1 <= Len(text)
        /\ SubSeq(text, i, i + Len(phrase) - 1) = phrase
\* ASSET_MAPPINGS, two of its asset ids
AssetIds == {"tunnel-001", "dryer-012"}
Variations(asset_id) ==
    IF asset_id = "tunnel-001"
    THEN { << "tunnel", "washer", "1" >>, << "tunnel", "1" >>, << "tunnel", "one" >> }
    ELSE { << "dryer", "12" >>, << "clm", "12" >>, << "clm", "dryer", "12" >> }

\* The items of all categories of a dict output, in category order.
AllItems(output) == output.work_requests \o output.work_orders \o output.tasks
\* output.get(...) is possible: the output is a dict.
IsDict(output) == output.shape \in {"dict", "empty"}
\* The categories that output.get(category) finds non-empty.
NonEmptyCategories(output) ==
    { Categories[i] : i \in { j \in 1..3 : output[Categories[j]] # <<>> } }

\* CategoryClassificationMetric.evaluate
CategoryEvaluate(actual_output, expected_output) ==
    IF ~ NonEmpty(expected_output) THEN Returns(Zero)
    ELSE IF ~ IsDict(expected_output) \/ ~ IsDict(actual_output) THEN Raises
    ELSE LET expected_categories == NonEmptyCategories(expected_output)
             actual_categories == NonEmptyCategories(actual_output)
             intersection == expected_categories \cap actual_categories
             union == expected_categories \cup actual_categories
         IN IF expected_categories = actual_categories THEN Returns(One)
            ELSE IF union # {}
            THEN Returns(Frac(Cardinality(intersection), Cardinality(union)))
            ELSE Returns(Zero)

\* The asset ids a variation of which occurs in the lowercased input text.
ExpectedAssets(input_text) ==
    { a \in AssetIds : \E v \in Variations(a) : Occurs(v, Lower(input_text)) }
\* The asset ids the items of a dict output carry.
ActualAssets(output) ==
    { AllItems(output)[i].asset_id :
        i \in { j \in 1..Len(AllItems(output)) : AllItems(output)[j].asset_id # "" } }
\* AssetIdentificationMetric.evaluate scoring the overlap against both sets.
AssetEvaluateJaccard(input_text, actual_output) ==
    IF ExpectedAssets(input_text) = {} THEN Returns(One)
    ELSE IF ~ IsDict(actual_output) THEN Raises
    ELSE Returns(Frac(Cardinality(ExpectedAssets(input_text) \cap ActualAssets(actual_output)),
                      Cardinality(ExpectedAssets(input_text) \cup ActualAssets(actual_output))))
\* AssetIdentificationMetric.evaluate
AssetEvaluate(input_text, actual_output) ==
    IF ExpectedAssets(input_text) = {} THEN Returns(One)
    ELSE IF ~ IsDict(actual_output) THEN Raises
    ELSE IF ExpectedAssets(input_text) = ActualAssets(actual_output) THEN Returns(One)
    ELSE Returns(Frac(Cardinality(ExpectedAssets(input_text) \cap ActualAssets(actual_output)),
                      Cardinality(ExpectedAssets(input_text))))

\* required_fields
RequiredFields == <<"title", "description", "status">>
\* The number of required fields present and truthy in an item.
FieldsSet(item) == Cardinality({ i \in 1..3 : item[RequiredFields[i]] # "" })
\* The sum of the item scores of the first n items.
RECURSIVE ItemScoreSum(_, _)
ItemScoreSum(items, n) ==
    IF n = 0 THEN Zero
    ELSE FracAdd(ItemScoreSum(items, n - 1), FracDiv(Frac(FieldsSet(items[n]), 1), 3))
\* CompletenessMetric.evaluate
CompletenessEvaluate(actual_output, expected_output) ==
    IF ~ NonEmpty(expected_output) THEN Returns(Zero)
    ELSE IF ~ IsDict(expected_output) \/ ~ IsDict(actual_output) THEN Raises
    ELSE LET items == AllItems(actual_output)
         IN IF Len(items) > 0
            THEN Returns(FracDiv(ItemScoreSum(items, Len(items)), Len(items)))
            ELSE Returns(Zero)

CATEGORY == "category_classification_accuracy"
ASSET == "asset_identification_accuracy"
COMPLETENESS == "completeness_score"
\* The record of a metric evaluated on its own.
Scored(name, r) == [ metric |-> name, raised |-> r.raised, score |-> r.score ]

\* The call r of the metric is recorded.
Record(name, r) ==
    /\ scored' = Scored(name, r)
    /\ mpc' = "scored"
    /\ UNCHANGED <<metrics, m_actual, m_expected, failing, scores, m_input, aggregate>>
    /\ UNCHANGED <<graphVars, evalVars, testerVars>>
\* One metric's evaluate is called on the inputs.
ScoreCategory ==
    /\ mpc = "inputs"
    /\ Record(CATEGORY, CategoryEvaluate(m_actual, m_expected))
ScoreAsset ==
    /\ mpc = "inputs"
    /\ Record(ASSET, AssetEvaluate(m_input, m_actual))
ScoreDowntime ==
    /\ mpc = "inputs"
    /\ Record(DOWNTIME, DowntimeEvaluate(m_actual, m_expected))
ScoreCompleteness ==
    /\ mpc = "inputs"
    /\ Record(COMPLETENESS, CompletenessEvaluate(m_actual, m_expected))

InitScoring ==
    /\ InitGraph /\ edges = { <<START, "a">>, <<"a", END>> } /\ agents = DeclaredAgents
    /\ replay = [deterministic |-> FALSE, replies |-> NoReplies]
    /\ NoEvaluation /\ NoTester
    /\ metrics = <<>> /\ scores = <<>> /\ failing = {} /\ mpc = "inputs"
    /\ m_input \in InputTexts
    /\ m_actual \in OutputValues \cup TriageOutputs
    /\ m_expected \in OutputValues \cup ExpectedTriageOutputs
    /\ scored = NoScore /\ aggregate = Zero

NextScoring ==
    \/ ScoreCategory
    \/ ScoreAsset
    \/ ScoreDowntime
    \/ ScoreCompleteness

SpecScoring == InitScoring /\ [][NextScoring]_vars

\* ------------------------------------------------------- the agent tester
\* The prompt an agent file holds, and the prompts the tester's user enters.
FilePrompt == "p0"
EnteredPrompts == {"p1", "p2"}
\* json.load of an agents/*.json file: its "name", its top-level "prompt" and
\* the "prompt" of its "config", each of the two absent (<<>>) or the file's.
AgentFiles ==
    [ name : DeclaredAgents, prompt : { <<>>, <<FilePrompt>> },
      config_prompt : { <<>>, <<FilePrompt>> } ]
\* The lists of files agents_dir.glob can yield: no file, one, or one per
\* declared agent, in either order.
AgentFileLists ==
    { <<>> } \cup { <<f>> : f \in AgentFiles }
      \cup { <<f, g>> : f \in { h \in AgentFiles : h.name = "a" },
                         g \in { h \in AgentFiles : h.name = "b" } }
      \cup { <<g, f>> : f \in { h \in AgentFiles : h.name = "a" },
                         g \in { h \in AgentFiles : h.name = "b" } }
\* _load_agents: agents[agent_config["name"]] = agent_config, file by file.
RECURSIVE LoadAgentsFrom(_, _)
LoadAgentsFrom(files, n) ==
    IF n = 0 THEN <<>>
    ELSE DictSet(LoadAgentsFrom(files, n - 1), files[n].name, files[n])
LoadAgents(files) == LoadAgentsFrom(files, Len(files))

\* agent["config"]["prompt"] of agent_node: the system prompt of the chain, or
\* a KeyError that fails the step before the chain is invoked.
SystemPrompt(agent) ==
    IF agent.config_prompt = <<>>
    THEN [ kind |-> "fail", prompt |-> None ]
    ELSE [ kind |-> "invoked", prompt |-> agent.config_prompt[1] ]

\* update_agent_prompt(workflow_name, new_prompt)
UpdateAgentPrompt(new_prompt) ==
    /\ t_ops < MaxOps
    /\ t_ops' = t_ops + 1 /\ t_op' = "update"
    /\ IF Len(t_agents) > 0
       THEN /\ t_agents' = [ t_agents EXCEPT ![1].value.prompt = <<new_prompt>> ]
            /\ t_ok' = TRUE /\ t_updated' = <<new_prompt>>
       ELSE /\ t_agents' = t_agents
            /\ t_ok' = FALSE /\ t_updated' = t_updated
    /\ UNCHANGED <<t_got, t_used>>
    /\ UNCHANGED <<graphVars, evalVars, metricVars>>

\* get_agent_prompt(workflow_name)
GetAgentPrompt ==
    /\ t_ops < MaxOps
    /\ t_ops' = t_ops + 1 /\ t_op' = "get"
    /\ t_got' = IF Len(t_agents) > 0 /\ t_agents[1].value.prompt # <<>>
                THEN t_agents[1].value.prompt[1]
                ELSE ""
    /\ UNCHANGED <<t_agents, t_ok, t_updated, t_used>>
    /\ UNCHANGED <<graphVars, evalVars, metricVars>>

\* test_agent(workflow_name, input_text): process_input runs the workflow's
\* graph, each step node of which builds its chain from workflow.agents.
TestAgent ==
    /\ t_ops < MaxOps
    /\ t_ops' = t_ops + 1 /\ t_op' = "test"
    /\ t_used' = [ i \in 1..Len(t_agents) |->
                     [ key |-> t_agents[i].key, value |-> SystemPrompt(t_agents[i].value) ] ]
    /\ UNCHANGED <<t_agents, t_ok, t_updated, t_got>>
    /\ UNCHANGED <<graphVars, evalVars, metricVars>>

\* AgentTester(): setup_workflows has loaded the workflow's agents.
InitTester ==
    /\ InitGraph /\ edges = { <<START, "a">>, <<"a", END>> } /\ agents = DeclaredAgents
    /\ replay = [deterministic |-> FALSE, replies |-> NoReplies]
    /\ NoEvaluation /\ NoMetrics
    /\ t_agents \in { LoadAgents(files) : files \in AgentFileLists }
    /\ t_ops = 0 /\ t_op = "none" /\ t_ok = FALSE
    /\ t_updated = <<>> /\ t_got = "" /\ t_used = <<>>

NextTester ==
    \/ \E new_prompt \in EnteredPrompts : UpdateAgentPrompt(new_prompt)
    \/ GetAgentPrompt
    \/ TestAgent

SpecTester == InitTester /\ [][NextTester]_vars

\* ------------------------------------------------------------------ claims
\* A node of the graph ran in this step.
NodeRan == Len(trace') = Len(trace) + 1
\* An agent node ran in this step and its lookup or model-backend call failed.
StepFailed == NodeRan /\ last'.kind = "fail"
\* An agent node ran in this step and its model-backend call succeeded.
StepSucceeded == NodeRan /\ last'.kind = "ok"
\* The validation node ran in this step.
ValidationRan == NodeRan /\ last'.node = VALIDATE
\* The nodes reached from node n of the compiled graph in at most k supersteps.
RECURSIVE ReachedFrom(_, _, _)
ReachedFrom(E, n, k) ==
    IF k = 0 THEN {}
    ELSE Successors(E, n)
         \cup UNION { ReachedFrom(E, m, k - 1) : m \in Successors(E, n) }
\* The nodes of the compiled graph that the entry point leads to.
ReachableNodes(E) == ReachedFrom(E, START, Cardinality(Nodes))
\* How often node n ran in this execution.
TimesRun(n) == Cardinality({ i \in 1..Len(trace) : trace[i] = n })
\* s is a prefix of t.
IsPrefix(s, t) == Len(s) <= Len(t) /\ SubSeq(t, 1, Len(s)) = s
\* The steps named by the step errors of an errors list.
FailedSteps(errs) == { errs[i][2] : i \in { j \in 1..Len(errs) : errs[j][1] = "Error in " } }
\* The record the validation node leaves when there is nothing to validate.
NoOutputRecord ==
    [ tag |-> "validation", valid |-> FALSE, error |-> <<"No output data to validate">> ]

\* The step named by a step error, the validation node for a validation error.
ErrorSource(err) == IF err[1] = "Error in " THEN err[2] ELSE VALIDATE
\* Every error and every step result of st comes from a node in nodes_run, and
\* there are no more errors than nodes run.
ProducedBy(st, nodes_run) ==
    /\ Len(st.errors) <= Len(nodes_run)
    /\ \A i \in 1..Len(st.errors) :
          \E j \in 1..Len(nodes_run) : nodes_run[j] = ErrorSource(st.errors[i])
    /\ \A k \in Keys(st.step_results) : \E j \in 1..Len(nodes_run) : nodes_run[j] = k

\* C1: a step whose lookup or model-backend call fails appends exactly one
\* error "Error in {step}: {message}" and leaves output null, and the run goes
\* on as after any step: the node its edge leads to is next (the run returns
\* when there is none), so that a returned run has run every node the entry
\* point leads to, the validation node included.
C1_FailedStepIsRecordedAndRunContinues ==
    /\ [][ StepFailed =>
             /\ state'.errors =
                  Append(state.errors, <<"Error in ", last'.node, ": ">> \o last'.msg)
             /\ state'.output_data = None
             /\ (Successors(edges, last'.node) = {} => pc' = "returned")
             /\ (Successors(edges, last'.node) # {} /\ step < RecursionLimit
                   => pc' = "running" /\ current' \in Successors(edges, last'.node))
          ]_vars
    /\ [](pc = "returned" => \A n \in ReachableNodes(edges) : TimesRun(n) >= 1)
\* A run whose first step failed, whose second step and validation ran, returned.
C1_Witness ==
    /\ pc = "returned"
    /\ trace = <<"a", "b", VALIDATE>>
    /\ "a" \in FailedSteps(state.errors)

\* C2: a failing step leaves an entry under its name in stepResults, leaves
\* output null and appends exactly one error "Error in {step}: ...".
C2_FailedStepHasStepResult ==
    [][ StepFailed =>
          /\ HasKey(state'.step_results, last'.node)
          /\ state'.output_data = None
          /\ Len(state'.errors) = Len(state.errors) + 1
          /\ SubSeq(state'.errors[Len(state'.errors)], 1, 3) = <<"Error in ", last'.node, ": ">>
       ]_vars

\* C3: execute on a successfully compiled graph returns a RunState and never
\* raises.
C3_ExecuteNeverRaises ==
    graph = "compiled" => pc # "raised"

\* C4: with a non-null output (an empty mapping included) the validation node
\* validates it: valid and errors unchanged, or not valid with one
\* "Validation error: {message}" appended and recorded.
C4_NonNullOutputIsValidated ==
    [][ (ValidationRan /\ state.output_data # None) =>
          \/ /\ Lookup(state'.step_results, VALIDATE).valid
             /\ state'.errors = state.errors
          \/ /\ ~ Lookup(state'.step_results, VALIDATE).valid
             /\ Len(state'.errors) = Len(state.errors) + 1
             /\ state'.errors[Len(state'.errors)][1] = "Validation error: "
             /\ Lookup(state'.step_results, VALIDATE).error = state'.errors[Len(state'.errors)]
       ]_vars

\* C5: with a null output the validation node records {valid: false, error:
\* "No output data to validate"} under "validate_output", appends nothing to
\* errors and does not raise: the run returns.
C5_NullOutputIsRecordedWithoutError ==
    [][ (ValidationRan /\ state.output_data = None) =>
          /\ Lookup(state'.step_results, VALIDATE) = NoOutputRecord
          /\ state'.errors = state.errors
          /\ state'.output_data = None
          /\ pc' = "returned"
       ]_vars
\* The validation node ran on the null output a failed step left.
C5_Witness ==
    /\ pc = "returned"
    /\ last.node = VALIDATE /\ last.seen = None
    /\ FailedSteps(state.errors) # {}
    /\ Lookup(state.step_results, VALIDATE) = NoOutputRecord

\* The step names the edge list E mentions.
NamedSteps(E) == ({ e[1] : e \in E } \cup { e[2] : e \in E }) \ {START, END}
\* The steps that an edge of E leads to from a step of S.
StepTargets(E, S) == { e[2] : e \in { x \in E : x[1] \in S /\ x[2] # END } }
\* The steps reached from the steps of S along at least one and at most k edges.
RECURSIVE StepsReached(_, _, _)
StepsReached(E, S, k) ==
    IF k = 0 THEN {}
    ELSE StepTargets(E, S) \cup StepsReached(E, StepTargets(E, S), k - 1)
\* The edges of E between steps hold a cycle.
HasCycle(E) ==
    \E n \in StepNames : n \in StepsReached(E, {n}, Cardinality(StepNames))
\* E has no edge from START.
LacksStartEdge(E) == ~ \E e \in E : e[1] = START

\* C6: compiling fails exactly when the edge list has no START edge, names an
\* undeclared step or holds a cycle; a graph naming a step without a loaded
\* step configuration is rejected too.
C6_CompileRejectsExactlyMalformedGraphs ==
    /\ graph = "compiled" =>
          /\ ~ LacksStartEdge(edges)
          /\ NamedSteps(edges) \subseteq DeclaredAgents
          /\ ~ HasCycle(edges)
          /\ NamedSteps(edges) \subseteq agents
    /\ exc = "ValueError" =>
          \/ LacksStartEdge(edges)
          \/ ~ (NamedSteps(edges) \subseteq DeclaredAgents)
          \/ HasCycle(edges)

\* An execution of the compiled graph has ended.
ExecutionOver == graph = "compiled" /\ pc \in {"returned", "raised"}

\* C7: in every execution the validation node runs exactly once, after every
\* step node that runs and as the last node, and "validate_output" is the
\* last key of stepResults in the returned RunState.
C7_ValidationRunsOnceAndLast ==
    ExecutionOver =>
        /\ TimesRun(VALIDATE) = 1
        /\ trace[Len(trace)] = VALIDATE
        /\ pc = "returned" =>
              /\ state.step_results # <<>>
              /\ state.step_results[Len(state.step_results)].key = VALIDATE

\* C8: one execution visits the step nodes in one order from the node the
\* START edge targets, a step running only after its predecessor, and calls
\* the model backend exactly once for every step the entry point leads to.
C8_EachReachableStepIsCalledOnce ==
    /\ \A n \in DeclaredAgents : calls[n] <= 1 /\ TimesRun(n) <= 1
    /\ \A i \in 1..Len(trace) :
          trace[i] \in Successors(edges, IF i = 1 THEN START ELSE trace[i - 1])
    /\ ExecutionOver =>
          \A n \in ReachableNodes(edges) \cap DeclaredAgents : calls[n] = 1

\* C9: when a step's model-backend call succeeds, output becomes the step's
\* result, the same result is recorded under the step's name in stepResults,
\* and errors is left as it was.
C9_SuccessOverwritesOutputAndRecordsResult ==
    [][ StepSucceeded =>
          /\ state'.output_data = last'.result
          /\ HasKey(state'.step_results, last'.node)
          /\ Lookup(state'.step_results, last'.node) = [tag |-> "result", data |-> last'.result]
          /\ state'.errors = state.errors
       ]_vars
\* A step succeeded after an earlier step had failed: the output, null after
\* the failure, is the later step's result and the error is still there.
C9_Witness ==
    /\ last.kind = "ok" /\ last.node = "b" /\ last.result = "good"
    /\ last.seen = None
    /\ state.output_data = "good"
    /\ "a" \in FailedSteps(state.errors)

\* C10: within one execution input and metadata never change and errors only
\* grows at its end: errors before a step is a prefix of errors after it.
C10_InputMetadataFixedErrorsAppendOnly ==
    [][ runs' = runs =>
          /\ state'.input_data = state.input_data
          /\ state'.metadata = state.metadata
          /\ IsPrefix(state.errors, state'.errors)
       ]_vars
\* A returned run in which errors grew twice: a step error, then a validation error.
C10_Witness ==
    /\ pc = "returned"
    /\ Len(state.errors) = 2
    /\ state.errors[1][1] = "Error in "
    /\ state.errors[2][1] = "Validation error: "
    /\ state.input_data \in Inputs

\* C11: every execute call that gets as far as invoking the graph starts from
\* a BaseState holding its input text, a null output, no errors, no step
\* results and no metadata, and at every moment the errors and step results
\* of the state all come from nodes run in the current execution, whatever
\* earlier executions on the same graph left behind.
C11_EachExecutionStartsFresh ==
    /\ [][ (runs' = runs + 1 /\ pc' = "running") =>
              /\ state'.input_data \in Inputs
              /\ state'.output_data = None
              /\ state'.errors = <<>>
              /\ state'.step_results = <<>>
              /\ state'.metadata = {} ]_vars
    /\ [] ProducedBy(state, trace)
\* A second execution returned without errors, and with other step results,
\* after a first one that had returned with an error and a step result.
C11_Witness ==
    /\ pc = "returned" /\ Len(returned) = 2
    /\ returned[1].errors # <<>> /\ returned[1].step_results # <<>>
    /\ returned[2] = state
    /\ state.errors = <<>>
    /\ state.step_results # returned[1].step_results

\* C12: with a deterministic model backend, any two executions of the same
\* compiled graph on the same input text that return have returned equal
\* BaseStates (output, step results, errors, metadata), whatever was executed
\* before and between them.
C12_SameInputSameRunState ==
    \A i \in 1..Len(returned) : \A j \in 1..Len(returned) :
        returned[i].input_data = returned[j].input_data => returned[i] = returned[j]
\* Three executions returned: the first and the third on one input, with an
\* error and a step result, the second on another input and with a different
\* outcome.
C12_Witness ==
    /\ replay.deterministic
    /\ Len(returned) = 3
    /\ returned[1].input_data = returned[3].input_data
    /\ returned[2].input_data # returned[1].input_data
    /\ returned[1].errors # <<>> /\ returned[1].step_results # <<>>
    /\ returned[2].errors = <<>>
    /\ Keys(returned[2].step_results) # Keys(returned[1].step_results)

\* The result appended last and the way execute() ended for its item.
LastResult == results[Len(results)]
\* The step appends the result of the item in progress.
ItemFinished == epc = "item" /\ epc' = "loop"

\* C13: when processing an item raises (execute() ends with an exception),
\* the result appended for the item has success false, the exception's message
\* as its only error, no metrics and no outputs; the item is handled once:
\* the loop is back between items with one more result, and the item it takes
\* next is the one after it.
C13_FailedItemIsRecordedAndLoopGoesOn ==
    /\ [][ (ItemFinished /\ executed'.kind = "raised") =>
              /\ results' = Append(results,
                     [ input_text |-> dataset[position].input,
                       expected_output |-> None, actual_output |-> None,
                       metrics |-> <<>>,
                       errors |-> << ExceptionMessage(executed'.exc) >>,
                       success |-> FALSE ])
              /\ position' = position ]_vars
    /\ [][ epc' = "item" => (epc = "loop" /\ position' = Len(results) + 1) ]_vars
\* Two items were handled and both raised.
C13_Witness ==
    /\ epc = "loop" /\ position = 2 /\ Len(results) = 2
    /\ executed.kind = "raised"
    /\ ~ results[1].success /\ ~ results[2].success
    /\ results[2].errors # <<>>

\* C14: nothing that fails while one item is handled ends the evaluation:
\* the only exception it can end with is the user's interrupt.
C14_NoItemAbortsTheEvaluation ==
    epc \in {"raised", "exited"} => eexc = "KeyboardInterrupt"

\* C15: when execute() returned with a null (or otherwise empty) output, the
\* item's result has success true and the default structure as actual output;
\* every result with success true has a non-null actual output.
C15_EmptyOutputBecomesDefault ==
    /\ (Len(results) > 0 /\ executed.kind = "returned"
           /\ ~ Truthy(executed.state.output_data)) =>
          (LastResult.success /\ LastResult.actual_output = DefaultOutput)
    /\ \A i \in 1..Len(results) : results[i].success => results[i].actual_output # None
\* An item whose only step failed: null output, one error, default result.
C15_Witness ==
    /\ Len(results) > 0 /\ executed.kind = "returned"
    /\ executed.state.output_data = None /\ executed.state.errors # <<>>
    /\ LastResult.success /\ LastResult.actual_output = DefaultOutput

\* C16: every error string in the errors of the BaseState that execute()
\* returned for an item is among the errors of the item's result.
C16_RunErrorsReachTheResult ==
    (Len(results) > 0 /\ executed.kind = "returned") =>
        \A i \in 1..Len(executed.state.errors) :
            \E j \in 1..Len(LastResult.errors) :
                LastResult.errors[j] = executed.state.errors[i]

\* C17: items are handled one at a time in dataset order: at most one item is
\* in progress, it is the one after the last finished one, results grow by
\* one result at the end, the i-th result carries the i-th item's input text,
\* failed or not, and the results returned are as many as the dataset's items.
C17_OneResultPerItemInOrder ==
    /\ [] /\ Len(results) <= Len(dataset)
          /\ \A i \in 1..Len(results) : results[i].input_text = dataset[i].input
          /\ Len(pending) = (IF epc = "item" THEN 1 ELSE 0)
          /\ epc = "item" => position = Len(results) + 1
          /\ epc \in {"loop", "done"} => position = Len(results)
          /\ epc = "done" => Len(results) = Len(dataset)
    /\ [][ results' # results =>
              (ItemFinished /\ Len(results') = Len(results) + 1
                 /\ SubSeq(results', 1, Len(results)) = results) ]_vars
\* run_evaluation returned two results for two items with different input
\* texts, the items having failed.
C17_Witness ==
    /\ epc = "done" /\ Len(dataset) = 2 /\ Len(results) = 2
    /\ dataset[1].input # dataset[2].input
    /\ ~ results[1].success /\ ~ results[2].success

\* C18: the user's interrupt ends the loop where it is: from then on no item
\* is taken and the results accumulated stay as they were.
C18_InterruptStopsLoopAndKeepsResults ==
    /\ [][ (eexc # "KeyboardInterrupt" /\ eexc' = "KeyboardInterrupt") =>
              (results' = results /\ position' = position
                 /\ epc' \in {"raised", "exited"}) ]_vars
    /\ [][ eexc = "KeyboardInterrupt" =>
              (results' = results /\ position' = position /\ epc' = epc
                 /\ eexc' = eexc) ]_vars
\* The run command was interrupted after the first of two items.
C18_Witness ==
    /\ entry = "run" /\ epc = "exited" /\ eexc = "KeyboardInterrupt"
    /\ Len(dataset) = 2 /\ position = 1 /\ Len(results) = 1

\* A score lies in [0, 1].
InUnitInterval(x) == FracLeq(Zero, x) /\ FracLeq(x, One)

\* C19: every score a metric returns lies in [0, 1], the downtime metric's on
\* any two integers, negative ones included, that differ.
C19_ScoresInUnitInterval ==
    \A i \in 1..Len(scores) : InUnitInterval(scores[i].value)

\* C20: the score map evaluate returns has exactly one entry per registered
\* metric name, in registration order: 0 for a metric whose evaluate raises,
\* the value its evaluate returns for any other.
C20_RaisingMetricScoresZero ==
    mpc = "evaluated" =>
        /\ Len(scores) = Len(metrics)
        /\ Cardinality(Keys(scores)) = Len(scores)
        /\ \A i \in 1..Len(metrics) :
              /\ scores[i].key = metrics[i].key
              /\ scores[i].value =
                    IF MetricEvaluate(metrics[i].value, m_actual, m_expected).raised
                    THEN Zero
                    ELSE MetricEvaluate(metrics[i].value, m_actual, m_expected).score
\* Three metrics were evaluated: the first raised, the others returned scores
\* that are not 0.
C20_Witness ==
    /\ mpc = "evaluated" /\ Len(metrics) = 3
    /\ MetricEvaluate(metrics[1].value, m_actual, m_expected).raised
    /\ ~ MetricEvaluate(metrics[2].value, m_actual, m_expected).raised
    /\ ~ MetricEvaluate(metrics[3].value, m_actual, m_expected).raised
    /\ scores[1].value = Zero /\ scores[2].value # Zero /\ scores[3].value # Zero

\* A single metric has been evaluated on the inputs.
Evaluated(name) == mpc = "scored" /\ scored.metric = name
\* The score returned is the rational n/d (d # 0).
ScoreIs(n, d) == ~ scored.raised /\ scored.score.num * d = scored.score.den * n

\* C21: on every expected and actual output that are dicts, E and A being
\* their sets of non-empty categories, the category metric returns 1 when
\* E = A, both empty included, and |E \cap A| / |E \cup A| otherwise.
C21_CategoryScoreIsJaccard ==
    (Evaluated(CATEGORY) /\ IsDict(m_expected) /\ IsDict(m_actual)) =>
        LET E == NonEmptyCategories(m_expected)
            A == NonEmptyCategories(m_actual)
        IN IF E = A THEN ScoreIs(1, 1)
           ELSE ScoreIs(Cardinality(E \cap A), Cardinality(E \cup A))

\* C22: X being the asset ids with a phrase in the lowercased input and A the
\* asset ids on the items of the actual output, the asset metric returns 1
\* when X is empty, whatever the actual output is, and |X \cap A| / |X| on a
\* dict otherwise.
C22_AssetScoreIsRecall ==
    Evaluated(ASSET) =>
        LET X == ExpectedAssets(m_input)
        IN IF X = {} THEN ScoreIs(1, 1)
           ELSE IsDict(m_actual) =>
                   ScoreIs(Cardinality(X \cap ActualAssets(m_actual)), Cardinality(X))
\* The input names tunnel-001 with a capital letter; the output carries that
\* id and another one, and scores 1.
C22_Witness ==
    /\ Evaluated(ASSET)
    /\ ExpectedAssets(m_input) = {"tunnel-001"} /\ m_input # Lower(m_input)
    /\ ActualAssets(m_actual) = {"tunnel-001", "dryer-012"}
    /\ scored.score = One

\* C23: on dicts whose downtimes are both numbers e (expected) and a (actual),
\* the downtime metric returns 1 when e = a; when e = 0, 1 if a = 0 and 0
\* otherwise; otherwise max(0, 1 - |e - a| / e).  When the downtimes differ
\* and one of them is no number, it returns 0.
C23_DowntimeScoreIsRelativeError ==
    (Evaluated(DOWNTIME) /\ m_expected.shape = "dict" /\ IsDict(m_actual)) =>
        LET ed == m_expected.equipment_downtime
            ad == m_actual.equipment_downtime
        IN IF ed # <<>> /\ ad # <<>>
           THEN LET e == ed[1]
                    a == ad[1]
                    n == e - Abs(e - a)
                IN IF e = a THEN ScoreIs(1, 1)
                   ELSE IF e = 0 THEN ScoreIs(0, 1)
                   ELSE IF n * e >= 0 THEN ScoreIs(n, e)
                   ELSE ScoreIs(0, 1)
           ELSE ed # ad => ScoreIs(0, 1)
\* Expected 4, actual 5: the score is 3/4.
C23_Witness ==
    /\ Evaluated(DOWNTIME)
    /\ m_expected.equipment_downtime = <<4>> /\ m_actual.equipment_downtime = <<5>>
    /\ m_expected.shape = "dict" /\ m_actual.shape = "dict"
    /\ scored.score = [ num |-> 3, den |-> 4 ] /\ ~ scored.raised

\* C24 as claimed: when the expected output has no downtime value, the
\* downtime metric gives 0 whatever the actual output holds.
C24_AbsentExpectedDowntimeScoresZero ==
    (Evaluated(DOWNTIME) /\ m_expected.equipment_downtime = <<>>) =>
        (scored.raised \/ scored.score = Zero)
\* C24: when the expected output is absent or empty, the downtime metric
\* returns 0 whatever the actual output is; when the expected output is a dict
\* without a downtime value and the actual output is a dict, it returns 1 if
\* the actual output has no downtime value either and 0 if it has one.
C24_AbsentExpectedOutputScoresZero ==
    Evaluated(DOWNTIME) =>
        /\ ~ NonEmpty(m_expected) => ScoreIs(0, 1)
        /\ (m_expected.shape = "dict" /\ m_expected.equipment_downtime = <<>>
               /\ IsDict(m_actual)) =>
              IF m_actual.equipment_downtime = <<>> THEN ScoreIs(1, 1) ELSE ScoreIs(0, 1)
\* Neither the expected dict nor the actual dict has a downtime: the score is 1.
C24_Witness ==
    /\ Evaluated(DOWNTIME)
    /\ m_expected.shape = "dict" /\ m_expected.equipment_downtime = <<>>
    /\ m_actual.shape = "dict" /\ m_actual.equipment_downtime = <<>>
    /\ scored.score = One

\* The number of required fields set in the first n items.
RECURSIVE FieldsSetIn(_, _)
FieldsSetIn(items, n) == IF n = 0 THEN 0 ELSE FieldsSetIn(items, n - 1) + FieldsSet(items[n])
\* C25: on every actual output that is a dict, with or without an expected
\* output, the completeness metric returns the mean over all items of all
\* categories of (required fields set) / 3, and 0 when there are no items.
C25_CompletenessIsMeanFieldCoverage ==
    (Evaluated(COMPLETENESS) /\ IsDict(m_actual) /\ m_expected.shape # "list") =>
        LET items == AllItems(m_actual)
        IN IF Len(items) = 0 THEN ScoreIs(0, 1)
           ELSE ScoreIs(FieldsSetIn(items, Len(items)), 3 * Len(items))

\* The product of the denominators of the first n scores.
RECURSIVE DenProduct(_, _)
DenProduct(sc, n) == IF n = 0 THEN 1 ELSE DenProduct(sc, n - 1) * sc[n].value.den
\* The sum of the first n scores, in units of 1/d (every denominator divides d).
RECURSIVE ScaledSum(_, _, _)
ScaledSum(sc, n, d) ==
    IF n = 0 THEN 0
    ELSE ScaledSum(sc, n - 1, d) + sc[n].value.num * (d \div sc[n].value.den)
\* C26: the aggregate is the sum of the scores present in the score map
\* divided by their number (a metric that is not in the map counts in
\* neither), and 0 for the empty map.
C26_AggregateIsMeanOfPresentScores ==
    mpc = "aggregated" =>
        LET n == Len(scores)
            d == DenProduct(scores, n)
        IN IF n = 0 THEN aggregate = Zero
           ELSE aggregate.num * n * d = aggregate.den * ScaledSum(scores, n, d)
\* Two of the three metrics are in the map, with scores 1/2 and 1: the
\* aggregate is 3/4.
C26_Witness ==
    /\ mpc = "aggregated"
    /\ Keys(scores) = CustomMetrics /\ failing = {}
    /\ aggregate = [ num |-> 3, den |-> 4 ]
\* The empty map aggregates to 0.
C26_WitnessEmpty == mpc = "aggregated" /\ scores = <<>> /\ aggregate = Zero

\* The event of an agent step, not of the validation node.
IsStepEvent(e) == e.node # VALIDATE
\* The events of the agent steps run in this execution, in order.
StepEvents == SelectSeq(events, IsStepEvent)
\* The event of the step run last.
LastStep == StepEvents[Len(StepEvents)]
\* A step's chain returned a result that is not null, in this step.
StepGaveOutput == NodeRan /\ last'.kind = "ok" /\ last'.result # None

\* C27 as claimed: when an execution of two or more steps has returned, its
\* output is non-null exactly when the last step succeeded with a non-empty
\* result.
C27_OutputNonNullIffLastResultNonEmpty ==
    (pc = "returned" /\ Len(StepEvents) >= 2) =>
        (state.output_data # None <=> (LastStep.kind = "ok" /\ Truthy(LastStep.result)))
\* C27: every chain invoked is given the input text of the execution, never
\* the output of the step before; when an execution of two or more steps has
\* returned, its output is non-null exactly when the last step succeeded with
\* a result that is not null; and a step that succeeds with such a result
\* makes the output non-null and leaves the errors as they were.
C27_StepsReadInputAndLastStepDecidesOutput ==
    /\ [](\A i \in 1..Len(events) :
             (IsStepEvent(events[i]) /\ events[i].node \in agents) =>
                 events[i].given = state.input_data)
    /\ []((pc = "returned" /\ Len(StepEvents) >= 2) =>
             (state.output_data # None <=> (LastStep.kind = "ok" /\ LastStep.result # None)))
    /\ [][ StepGaveOutput =>
              (state'.output_data = last'.result /\ state'.errors = state.errors) ]_vars
\* Step a failed, step b then saw a null output, was given the input text and
\* returned an empty mapping: the execution returned it, with a's error.
C27_Witness ==
    /\ pc = "returned" /\ Len(events) = 2
    /\ events[1].node = "a" /\ events[1].kind = "fail"
    /\ events[2].node = "b" /\ events[2].kind = "ok" /\ events[2].result = "{}"
    /\ events[2].given = state.input_data
    /\ state.output_data = "{}" /\ Len(state.errors) = 1
\* Step a succeeded and step b, with a's output before it, was given the
\* input text.
C27_WitnessAfterSuccess ==
    /\ Len(events) = 2
    /\ events[1].kind = "ok" /\ events[1].result = "good"
    /\ events[2].node = "b" /\ events[2].seen = "good"
    /\ events[2].given = state.input_data

\* The number of events among the first n that satisfy the test.
RECURSIVE CountEvents(_, _)
CountEvents(Test(_), n) ==
    IF n = 0 THEN 0
    ELSE CountEvents(Test, n - 1) + (IF Test(events[n]) THEN 1 ELSE 0)
IsFailedStep(e) == IsStepEvent(e) /\ e.kind = "fail"
IsRaisedValidation(e) == e.node = VALIDATE /\ e.kind = "invalid"
\* C28: in every state of an execution, the errors are as many as the step
\* executions that failed so far plus the validation runs that raised, and
\* the keys of step_results are the names of the steps that succeeded so far,
\* plus "validate_output" once validation has run.
C28_ErrorsAndStepResultsCountTheRuns ==
    pc \in {"running", "returned"} =>
        /\ Len(state.errors) = CountEvents(IsFailedStep, Len(events))
                                 + CountEvents(IsRaisedValidation, Len(events))
        /\ Keys(state.step_results) =
              { events[i].node : i \in { j \in 1..Len(events) : events[j].kind # "fail" } }
\* A step failed, a step succeeded with a rejected output and validation
\* raised on it: two errors, two keys.
C28_Witness ==
    /\ pc = "returned" /\ Len(events) = 3
    /\ events[1].kind = "fail" /\ events[2].kind = "ok" /\ events[3].kind = "invalid"
    /\ Len(state.errors) = 2
    /\ Keys(state.step_results) = { events[2].node, VALIDATE }

\* The validation record of the BaseState execute() returned says valid.
ValidationRecordValid ==
    /\ HasKey(executed.state.step_results, VALIDATE)
    /\ Lookup(executed.state.step_results, VALIDATE).valid
C30_UpdatedPromptIsTheOneUsed ==
    t_updated # <<>> =>
        /\ t_op = "get" => t_got = t_updated[1]
        /\ t_op = "test" =>
              /\ t_used[1].key = t_agents[1].key
              /\ t_used[1].value = [ kind |-> "invoked", prompt |-> t_updated[1] ]
====
